---- MODULE Spec2Model ----
(***************************************************************************)
(* A model of task/tictactoe.py: the string-encoded 3x3 board, the pure    *)
(* functions over it (get_candidate, check_win, evaluate_game_status,      *)
(* validate_move, flatten_coordinates, add_move, get_player) and the       *)
(* read-validate-apply-evaluate loop of main().                            *)
(*                                                                         *)
(* A Python str is a sequence of one-character strings; Python's 0-based   *)
(* index i is position i+1 of the sequence.  A token of input().split()    *)
(* is a non-empty sequence of characters.                                  *)
(***************************************************************************)
EXTENDS Integers, Sequences, FiniteSets

VARIABLES
    game_state,      \* main: the board string (the argument `state` of a call)
    game_status,     \* main: the GameStatus (the result of evaluate_game_status)
    player,          \* main: the mark get_player chose for this iteration ("none": unbound)
    checked_coords,  \* main: the pair validate_move returned
    coords_in,       \* the (row, col) token pair handed to validate_move
    outcome,         \* how the last try body / call ended: "none", "ok" or the exception
    accepted,        \* number of moves main has accepted so far
    updated_state,   \* add_move: the string a single call returned
    pc               \* position: "loop", "done", "crashed"; "call", "ret" for a single call

vars ==
    <<game_state, game_status, player, checked_coords, coords_in, outcome, accepted,
      updated_state, pc>>

----------------------------------------------------------------------------
(* Bounds of the model *)

\* Digit tokens "0" .. MaxDigit are offered as input.
MaxDigit == 4

\* A single call of add_move is given coordinates 0 .. MaxCoord.
MaxCoord == 4

----------------------------------------------------------------------------
(* Strings *)

BLANK == " "

Cells == {BLANK, "X", "O"}

\* ' ' * 9
EmptyBoard == [i \in 1..9 |-> BLANK]

\* Every 9-character string over ' ', 'X', 'O'.
AllBoards == [1..9 -> Cells]

\* Python's len(state) and state[i] for 0 <= i < len(state), and state[i] for
\* -len(state) <= i < 0 (counted from the end).
PyIndex(s, i) == IF i < 0 THEN s[Len(s) + i + 1] ELSE s[i + 1]

\* A slice bound as Python normalises it: negative counts from the end,
\* then clamped to [0, len].
PyClamp(n, len) ==
    LET m == IF n < 0 THEN n + len ELSE n
    IN  IF m < 0 THEN 0 ELSE IF m > len THEN len ELSE m

\* s[lo:hi]
PySlice(s, lo, hi) ==
    LET a == PyClamp(lo, Len(s))
        b == PyClamp(hi, Len(s))
    IN  IF a >= b THEN <<>> ELSE SubSeq(s, a + 1, b)

----------------------------------------------------------------------------
(* GameStatus *)

GameStatus == {"NOT_FINISHED", "X_WIN", "O_WIN", "DRAW", "IMPOSSIBLE"}

----------------------------------------------------------------------------
(* get_candidate, get_blank_count, check_win, evaluate_game_status *)

get_candidate(state, char) == {i \in 0..(Len(state) - 1) : state[i + 1] = char}

get_blank_count(state) == Cardinality(get_candidate(state, BLANK))

winners ==
    { {0, 1, 2}, {3, 4, 5}, {6, 7, 8},
      {0, 3, 6}, {1, 4, 7}, {2, 5, 8},
      {0, 4, 8}, {2, 4, 6} }

\* Mutant: the anti-diagonal {2, 4, 6} is missing from the list.
check_win_no_antidiagonal(candidate) ==
    \E winner \in winners \ {{2, 4, 6}} : winner \subseteq candidate

\* Mutant: the candidate must equal a winning set instead of containing one.
check_win_equal(candidate) == \E winner \in winners : winner = candidate

check_win(candidate) == \E winner \in winners : winner \subseteq candidate

Abs(n) == IF n < 0 THEN -n ELSE n

\* Mutant: the final `return GameStatus.DRAW` is missing (the call returns None).
evaluate_game_status_no_final_return(state) ==
    LET x_candidate == get_candidate(state, "X")
        o_candidate == get_candidate(state, "O")
        x_win == check_win(x_candidate)
        o_win == check_win(o_candidate)
    IN  IF Abs(Cardinality(x_candidate) - Cardinality(o_candidate)) > 1
          THEN "IMPOSSIBLE"
        ELSE IF x_win /\ o_win THEN "IMPOSSIBLE"
        ELSE IF x_win THEN "X_WIN"
        ELSE IF o_win THEN "O_WIN"
        ELSE IF get_blank_count(state) > 0 THEN "NOT_FINISHED"
        ELSE "None"

\* Mutant: the count imbalance is tested without abs().
evaluate_game_status_no_abs(state) ==
    LET x_candidate == get_candidate(state, "X")
        o_candidate == get_candidate(state, "O")
        x_win == check_win(x_candidate)
        o_win == check_win(o_candidate)
    IN  IF Cardinality(x_candidate) - Cardinality(o_candidate) > 1
          THEN "IMPOSSIBLE"
        ELSE IF x_win /\ o_win THEN "IMPOSSIBLE"
        ELSE IF x_win THEN "X_WIN"
        ELSE IF o_win THEN "O_WIN"
        ELSE IF get_blank_count(state) > 0 THEN "NOT_FINISHED"
        ELSE "DRAW"

\* Mutant: `blank_count >= 0` instead of `blank_count > 0`.
evaluate_game_status_blank_ge(state) ==
    LET x_candidate == get_candidate(state, "X")
        o_candidate == get_candidate(state, "O")
        x_win == check_win(x_candidate)
        o_win == check_win(o_candidate)
    IN  IF Abs(Cardinality(x_candidate) - Cardinality(o_candidate)) > 1
          THEN "IMPOSSIBLE"
        ELSE IF x_win /\ o_win THEN "IMPOSSIBLE"
        ELSE IF x_win THEN "X_WIN"
        ELSE IF o_win THEN "O_WIN"
        ELSE IF get_blank_count(state) >= 0 THEN "NOT_FINISHED"
        ELSE "DRAW"

evaluate_game_status(state) ==
    LET blank_count == get_blank_count(state)
        x_candidate == get_candidate(state, "X")
        o_candidate == get_candidate(state, "O")
        x_win == check_win(x_candidate)
        o_win == check_win(o_candidate)
    IN  IF Abs(Cardinality(x_candidate) - Cardinality(o_candidate)) > 1
          THEN "IMPOSSIBLE"
        ELSE IF x_win /\ o_win THEN "IMPOSSIBLE"
        ELSE IF x_win THEN "X_WIN"
        ELSE IF o_win THEN "O_WIN"
        ELSE IF blank_count > 0 THEN "NOT_FINISHED"
        ELSE "DRAW"

----------------------------------------------------------------------------
(* Tokens: str.isdigit and int *)

\* The ASCII decimal digits; DecimalChar[d + 1] is the character of value d.
DecimalChar == <<"0", "1", "2", "3", "4", "5", "6", "7", "8", "9">>

DecimalChars == {DecimalChar[k] : k \in 1..Len(DecimalChar)}

\* U+00B2 SUPERSCRIPT TWO: a character str.isdigit accepts (Numeric_Type =
\* Digit) and int rejects (it is not a decimal digit).
SUPERSCRIPT_TWO == "^2"

\* Characters c with c.isdigit().
IsDigitChars == DecimalChars \cup {SUPERSCRIPT_TWO}

\* tok.isdigit(): at least one character and every character a digit.
isdigit(tok) == Len(tok) > 0 /\ \A k \in 1..Len(tok) : tok[k] \in IsDigitChars

DigitValue(c) == CHOOSE d \in 0..9 : DecimalChar[d + 1] = c

RECURSIVE DecimalValue(_)
DecimalValue(ds) ==
    IF ds = <<>> THEN 0
    ELSE 10 * DecimalValue(SubSeq(ds, 1, Len(ds) - 1)) + DigitValue(ds[Len(ds)])

\* The digits of a token once an optional leading sign is taken off.
Unsigned(tok) == IF Len(tok) > 0 /\ tok[1] \in {"-", "+"} THEN Tail(tok) ELSE tok

\* int(tok) returns a value: an optional sign, then one or more decimal digits.
int_parses(tok) ==
    /\ Len(Unsigned(tok)) > 0
    /\ \A k \in 1..Len(Unsigned(tok)) : Unsigned(tok)[k] \in DecimalChars

\* The value int(tok) returns when it returns one.
int(tok) ==
    IF Len(tok) > 0 /\ tok[1] = "-" THEN -DecimalValue(Unsigned(tok))
    ELSE DecimalValue(Unsigned(tok))

----------------------------------------------------------------------------
(* flatten_coordinates, validate_move, add_move, get_player *)

flatten_coordinates(coordinates) ==
    LET row == coordinates[1] - 1
        col == coordinates[2] - 1
    IN  row * 3 + col

\* Mutant: range(0, 4) instead of range(1, 4).
legal_range_from_zero == 0..3

legal_range == 1..3

valid_content == {"X", "O"}

\* Mutant: the occupancy test is missing.
validate_move_no_occupancy(state, coords) ==
    LET row == coords[1]
        col == coords[2]
        new_coords == <<int(row), int(col)>>
    IN  IF ~isdigit(row) \/ ~isdigit(col)
          THEN [exc |-> "NonNumericError", coords |-> <<>>]
        ELSE IF ~int_parses(row) \/ ~int_parses(col)
          THEN [exc |-> "ValueError", coords |-> <<>>]
        ELSE IF new_coords[1] \notin legal_range \/ new_coords[2] \notin legal_range
          THEN [exc |-> "CoordinateError", coords |-> <<>>]
        ELSE [exc |-> "none", coords |-> new_coords]

\* Mutant: the pair is returned zero-based, (row - 1, col - 1).
validate_move_returns_zero_based(state, coords) ==
    LET row == coords[1]
        col == coords[2]
        new_coords == <<int(row), int(col)>>
    IN  IF ~isdigit(row) \/ ~isdigit(col)
          THEN [exc |-> "NonNumericError", coords |-> <<>>]
        ELSE IF ~int_parses(row) \/ ~int_parses(col)
          THEN [exc |-> "ValueError", coords |-> <<>>]
        ELSE IF new_coords[1] \notin legal_range \/ new_coords[2] \notin legal_range
          THEN [exc |-> "CoordinateError", coords |-> <<>>]
        ELSE IF PyIndex(state, flatten_coordinates(new_coords)) \in valid_content
          THEN [exc |-> "OccupiedCellError", coords |-> <<>>]
        ELSE [exc |-> "none", coords |-> <<new_coords[1] - 1, new_coords[2] - 1>>]

\* The call's end: exc = "none" and the returned pair, or the exception raised.
validate_move(state, coords) ==
    LET row == coords[1]
        col == coords[2]
        new_coords == <<int(row), int(col)>>
    IN  IF ~isdigit(row) \/ ~isdigit(col)
          THEN [exc |-> "NonNumericError", coords |-> <<>>]
        ELSE IF ~int_parses(row) \/ ~int_parses(col)
          THEN [exc |-> "ValueError", coords |-> <<>>]
        ELSE IF new_coords[1] \notin legal_range \/ new_coords[2] \notin legal_range
          THEN [exc |-> "CoordinateError", coords |-> <<>>]
        ELSE IF PyIndex(state, flatten_coordinates(new_coords)) \in valid_content
          THEN [exc |-> "OccupiedCellError", coords |-> <<>>]
        ELSE [exc |-> "none", coords |-> new_coords]

\* Mutant: the tail slice starts at index instead of index + 1, so the old
\* cell is kept after the new mark.
add_move_keeps_cell(state, coords, char) ==
    LET index == flatten_coordinates(coords)
    IN  PySlice(state, 0, index) \o <<char>> \o PySlice(state, index, Len(state))

add_move(state, coords, char) ==
    LET index == flatten_coordinates(coords)
    IN  PySlice(state, 0, index) \o <<char>> \o PySlice(state, index + 1, Len(state))

\* Mutant: only 'X' is counted as a play.
get_player_counts_x(state) ==
    LET play_count == Cardinality({k \in 1..Len(state) : state[k] = "X"})
    IN  IF play_count % 2 = 0 THEN "X" ELSE "O"

\* Mutant: the two marks are the wrong way round (O moves first).
get_player_o_first(state) ==
    LET play_count == Cardinality({k \in 1..Len(state) : state[k] \in {"X", "O"}})
    IN  IF play_count % 2 = 0 THEN "O" ELSE "X"

get_player(state) ==
    LET play_count == Cardinality({k \in 1..Len(state) : state[k] \in {"X", "O"}})
    IN  IF play_count % 2 = 0 THEN "X" ELSE "O"

----------------------------------------------------------------------------
(* Input *)

\* The tokens offered as input: the digits "0" .. MaxDigit, a two-digit
\* number, signed numbers, a letter, and a non-decimal digit character.
Tokens ==
    {<<DecimalChar[d + 1]>> : d \in 0..MaxDigit}
    \cup { <<"1", "2">>, <<"-", "1">>, <<"+", "2">>, <<"a">>, <<SUPERSCRIPT_TWO>> }

\* The (row, col) pairs of tokens handed to validate_move.
TokenPairs == Tokens \X Tokens

\* input().split(): no token, one token, two tokens, or a third token after them.
Lines ==
    {<<>>} \cup {<<t>> : t \in Tokens} \cup TokenPairs
    \cup {<<t, t, t>> : t \in Tokens}

----------------------------------------------------------------------------
(* main *)

\* Mutant: the move is applied before it is validated, so that a rejected
\* move on an occupied cell has already overwritten the cell.
try_body_apply_first(state, status, move) ==
    LET who == get_player(state)
        unchanged(e) ==
            [exc |-> e, game_state |-> state, game_status |-> status,
             player |-> who, checked_coords |-> <<>>]
    IN  IF Len(move) < 2 THEN unchanged("IndexError")
        ELSE LET checked == validate_move(state, <<move[1], move[2]>>)
             IN  IF checked.exc = "OccupiedCellError"
                   THEN [exc |-> checked.exc,
                         game_state |-> add_move(state, <<int(move[1]), int(move[2])>>, who),
                         game_status |-> status,
                         player |-> who,
                         checked_coords |-> <<>>]
                 ELSE IF checked.exc # "none" THEN unchanged(checked.exc)
                 ELSE LET new_state == add_move(state, checked.coords, who)
                      IN  [exc |-> "none",
                           game_state |-> new_state,
                           game_status |-> evaluate_game_status(new_state),
                           player |-> who,
                           checked_coords |-> checked.coords]

\* One pass through the try body of the while loop on the input line `move`:
\* the exception that ended it ("none" when it ran to its end) and the values
\* of main's variables after it.
try_body(state, status, move) ==
    LET who == get_player(state)
        unchanged(e) ==
            [exc |-> e, game_state |-> state, game_status |-> status,
             player |-> who, checked_coords |-> <<>>]
    IN  IF Len(move) < 2 THEN unchanged("IndexError")
        ELSE LET checked == validate_move(state, <<move[1], move[2]>>)
             IN  IF checked.exc # "none" THEN unchanged(checked.exc)
                 ELSE LET new_state == add_move(state, checked.coords, who)
                      IN  [exc |-> "none",
                           game_state |-> new_state,
                           game_status |-> evaluate_game_status(new_state),
                           player |-> who,
                           checked_coords |-> checked.coords]

\* The exceptions main's except clauses catch.
Caught == {"NonNumericError", "CoordinateError", "OccupiedCellError"}

Init ==
    /\ game_state = EmptyBoard
    /\ game_status = "NOT_FINISHED"
    /\ player = "none"
    /\ checked_coords = <<>>
    /\ coords_in = <<>>
    /\ outcome = "none"
    /\ accepted = 0
    /\ updated_state = <<>>
    /\ pc = "loop"

\* Mutant: `while True` - the loop condition is not tested.
Iterate_ignores_status ==
    /\ pc = "loop"
    /\ \E move \in Lines :
         \E r \in {try_body(game_state, game_status, move)} :
             /\ game_state' = r.game_state
             /\ game_status' = r.game_status
             /\ player' = r.player
             /\ checked_coords' = r.checked_coords
             /\ outcome' = (IF r.exc = "none" THEN "ok" ELSE r.exc)
             /\ accepted' = (IF r.exc = "none" THEN accepted + 1 ELSE accepted)
             /\ pc' = (IF r.exc = "none" \/ r.exc \in Caught THEN "loop" ELSE "crashed")
    /\ UNCHANGED <<coords_in, updated_state>>

\* One iteration of the while loop on some input line: the try body, then the
\* except clause that catches its exception, or no clause and the process ends.
\* (r is bound by \E over a singleton so that the body is evaluated once.)
Iterate ==
    /\ pc = "loop"
    /\ game_status = "NOT_FINISHED"
    /\ \E move \in Lines :
         \E r \in {try_body(game_state, game_status, move)} :
             /\ game_state' = r.game_state
             /\ game_status' = r.game_status
             /\ player' = r.player
             /\ checked_coords' = r.checked_coords
             /\ outcome' = (IF r.exc = "none" THEN "ok" ELSE r.exc)
             /\ accepted' = (IF r.exc = "none" THEN accepted + 1 ELSE accepted)
             /\ pc' = (IF r.exc = "none" \/ r.exc \in Caught THEN "loop" ELSE "crashed")
    /\ UNCHANGED <<coords_in, updated_state>>

\* The loop condition fails; print(str(game_status)).
Exit ==
    /\ pc = "loop"
    /\ game_status # "NOT_FINISHED"
    /\ pc' = "done"
    /\ UNCHANGED <<game_state, game_status, player, checked_coords, coords_in,
                   outcome, accepted, updated_state>>

Next ==
    \/ Iterate
    \/ Exit

Spec == Init /\ [][Next]_vars

\* The loop of main with its own control flow running on: once the loop
\* condition is false the loop is left and the status printed.  Nothing is
\* assumed about the input lines.
SpecLive == Spec /\ WF_vars(Exit)

----------------------------------------------------------------------------
(* evaluate_game_status called on an arbitrary board *)

InitEval ==
    /\ game_state \in AllBoards
    /\ game_status = "NOT_FINISHED"
    /\ player = "none"
    /\ checked_coords = <<>>
    /\ coords_in = <<>>
    /\ outcome = "none"
    /\ accepted = 0
    /\ updated_state = <<>>
    /\ pc = "call"

CallEvaluate ==
    /\ pc = "call"
    /\ game_status' = evaluate_game_status(game_state)
    /\ outcome' = "ok"
    /\ pc' = "ret"
    /\ UNCHANGED <<game_state, player, checked_coords, coords_in, accepted, updated_state>>

NextEval == CallEvaluate

SpecEval == InitEval /\ [][NextEval]_vars

----------------------------------------------------------------------------
(* validate_move called on an arbitrary board and token pair *)

InitValidate ==
    /\ game_state \in AllBoards
    /\ game_status = "NOT_FINISHED"
    /\ player = "none"
    /\ checked_coords = <<>>
    /\ coords_in = <<>>
    /\ outcome = "none"
    /\ accepted = 0
    /\ updated_state = <<>>
    /\ pc = "call"

CallValidate ==
    /\ pc = "call"
    /\ \E coords \in TokenPairs :
         \E r \in {validate_move(game_state, coords)} :
             /\ coords_in' = coords
             /\ outcome' = (IF r.exc = "none" THEN "ok" ELSE r.exc)
             /\ checked_coords' = r.coords
    /\ pc' = "ret"
    /\ UNCHANGED <<game_state, game_status, player, accepted, updated_state>>

NextValidate == CallValidate

SpecValidate == InitValidate /\ [][NextValidate]_vars

----------------------------------------------------------------------------
(* add_move called on an arbitrary board, pair of integers and mark *)

\* The (row, col) pairs of integers handed to add_move: in [1,3] and around it.
CoordPairs == (0..MaxCoord) \X (0..MaxCoord)

InitAddMove ==
    /\ game_state \in AllBoards
    /\ game_status = "NOT_FINISHED"
    /\ player = "none"
    /\ checked_coords = <<>>
    /\ coords_in = <<>>
    /\ outcome = "none"
    /\ accepted = 0
    /\ updated_state = <<>>
    /\ pc = "call"

\* No statement of add_move or flatten_coordinates raises on a pair of
\* integers: subtraction, slicing and concatenation are total, so the call
\* always returns.
CallAddMove ==
    /\ pc = "call"
    /\ \E coords \in CoordPairs, char \in valid_content :
         /\ checked_coords' = coords
         /\ player' = char
         /\ updated_state' = add_move(game_state, coords, char)
    /\ outcome' = "ok"
    /\ pc' = "ret"
    /\ UNCHANGED <<game_state, game_status, coords_in, accepted>>

NextAddMove == CallAddMove

SpecAddMove == InitAddMove /\ [][NextAddMove]_vars

----------------------------------------------------------------------------
(* Properties of evaluate_game_status (SpecEval) *)

\* The eight winning triples as the specification lists them.
Triples ==
    { {0, 1, 2}, {3, 4, 5}, {6, 7, 8}, {0, 3, 6},
      {1, 4, 7}, {2, 5, 8}, {0, 4, 8}, {2, 4, 6} }

CountOf(board, mark) == Cardinality({k \in 1..9 : board[k] = mark})

HoldsTriple(board, mark) == \E t \in Triples : \A i \in t : board[i + 1] = mark

\* The reference procedure of the specification.
ReferenceStatus(board) ==
    LET nx == CountOf(board, "X")
        no == CountOf(board, "O")
    IN  CASE nx - no > 1 \/ no - nx > 1 -> "IMPOSSIBLE"
          [] OTHER ->
             CASE HoldsTriple(board, "X") /\ HoldsTriple(board, "O") -> "IMPOSSIBLE"
               [] HoldsTriple(board, "X") /\ ~HoldsTriple(board, "O") -> "X_WIN"
               [] HoldsTriple(board, "O") /\ ~HoldsTriple(board, "X") -> "O_WIN"
               [] OTHER -> IF \E k \in 1..9 : board[k] = BLANK
                             THEN "NOT_FINISHED" ELSE "DRAW"

\* C1: for every one of the 3^9 boards, evaluate_game_status returns what the
\* reference procedure returns: impossible on a count imbalance above 1, else
\* impossible when both marks hold a triple, else the winner, else in-progress
\* when a cell is empty, else draw.
C1_EvaluateMatchesReference ==
    pc = "ret" => game_status = ReferenceStatus(game_state)

\* A board on which both marks hold a triple with balanced counts has been
\* evaluated as impossible.
C1_Witness ==
    /\ pc = "ret"
    /\ game_state = <<"X", "X", "X", "O", "O", "O", BLANK, BLANK, BLANK>>
    /\ game_status = "IMPOSSIBLE"

\* C2: evaluate_game_status is total: on every 9-cell board, reachable by play
\* or not, the call returns, and what it returns is one of the five statuses.
C2_EvaluateTotal ==
    pc = "ret" => outcome = "ok" /\ game_status \in GameStatus

\* A board no play reaches (nine X) has been evaluated.
C2_Witness ==
    /\ pc = "ret"
    /\ game_state = [k \in 1..9 |-> "X"]
    /\ game_status = "IMPOSSIBLE"

\* "XOXOXOXOX"
Board_XOXOXOXOX == <<"X", "O", "X", "O", "X", "O", "X", "O", "X">>

\* C3 as stated: the board "XOXOXOXOX" is evaluated as draw.
C3_Original ==
    (pc = "ret" /\ game_state = Board_XOXOXOXOX) => game_status = "DRAW"

\* C3 as amended: the board "XOXOXOXOX" is evaluated as X-wins (X holds both
\* diagonals {0,4,8} and {2,4,6}).
C3_XOXOXOXOX_IsXWin ==
    (pc = "ret" /\ game_state = Board_XOXOXOXOX) => game_status = "X_WIN"

\* The board "XOXOXOXOX" has been evaluated.
C3_Witness ==
    /\ pc = "ret"
    /\ game_state = Board_XOXOXOXOX
    /\ HoldsTriple(game_state, "X")

\* Every X replaced by O and every O by X.
SwapMarks(board) ==
    [k \in 1..9 |-> IF board[k] = "X" THEN "O" ELSE IF board[k] = "O" THEN "X" ELSE BLANK]

MirrorStatus(status) ==
    IF status = "X_WIN" THEN "O_WIN" ELSE IF status = "O_WIN" THEN "X_WIN" ELSE status

\* C5: swapping X and O on any board turns X-wins into O-wins and O-wins into
\* X-wins and leaves in-progress, draw and impossible as they are.
C5_SwapSymmetry ==
    pc = "ret" => evaluate_game_status(SwapMarks(game_state)) = MirrorStatus(game_status)

\* A board X wins whose swapped board O wins, with one more X than O.
C5_Witness ==
    /\ pc = "ret"
    /\ game_status = "X_WIN"
    /\ CountOf(game_state, "X") = CountOf(game_state, "O") + 1
    /\ evaluate_game_status(SwapMarks(game_state)) = "O_WIN"

----------------------------------------------------------------------------
(* Properties of the loop of main (Spec) *)

\* The mark of the player who moves after k accepted moves.
MarkAfter(k) == IF k % 2 = 0 THEN "X" ELSE "O"

\* C4: after any sequence of accepted moves from the empty board the status
\* is in-progress, X-wins, O-wins or draw, never impossible: neither the stored
\* status nor the evaluation of the current board.
C4_NeverImpossible ==
    /\ game_status \in {"NOT_FINISHED", "X_WIN", "O_WIN", "DRAW"}
    /\ evaluate_game_status(game_state) # "IMPOSSIBLE"

\* Nine moves have been accepted and the last one won the game for X.
C4_Witness ==
    /\ accepted = 9
    /\ outcome = "ok"
    /\ game_status = "X_WIN"

\* C6: after k accepted moves, with any rejected inputs in between, get_player
\* returns X for even k and O for odd k, and the mark the k-th accepted move
\* placed is X for odd k and O for even k.
C6_TurnsAlternate ==
    /\ get_player(game_state) = MarkAfter(accepted)
    /\ outcome \in Caught => player = MarkAfter(accepted)
    /\ outcome = "ok" =>
         /\ player = MarkAfter(accepted - 1)
         /\ PyIndex(game_state, flatten_coordinates(checked_coords)) = player

\* After three accepted moves an input has been rejected and O is to move.
C6_Witness ==
    /\ accepted = 3
    /\ outcome = "OccupiedCellError"
    /\ player = "O"
    /\ pc = "loop"

\* C10: an iteration that ends in NonNumericError, CoordinateError or
\* OccupiedCellError leaves the board, the status, the number of accepted
\* moves and the player to move as they were, and the loop goes round again.
C10_RejectionChangesNothing ==
    [][ outcome' \in Caught =>
          /\ game_state' = game_state
          /\ game_status' = game_status
          /\ accepted' = accepted
          /\ get_player(game_state') = get_player(game_state)
          /\ pc' = "loop"
          /\ game_status' = "NOT_FINISHED" ]_vars

\* A move on an occupied cell has been rejected after four accepted moves.
C10_Witness ==
    /\ outcome = "OccupiedCellError"
    /\ accepted = 4
    /\ CountOf(game_state, BLANK) = 5

----------------------------------------------------------------------------
(* Properties of validate_move (SpecValidate) *)

\* A token that parses as an integer whose value lies in [1,3].
InRange(tok) == int_parses(tok) /\ int(tok) >= 1 /\ int(tok) <= 3

\* The outcome the specification's order of checks gives: numeric first, then
\* range, then occupancy of cell (row-1)*3+(col-1).
OrderedOutcome(board, row, col) ==
    IF ~int_parses(row) \/ ~int_parses(col) THEN "NonNumericError"
    ELSE IF ~InRange(row) \/ ~InRange(col) THEN "CoordinateError"
    ELSE IF board[(int(row) - 1) * 3 + (int(col) - 1) + 1] # BLANK THEN "OccupiedCellError"
    ELSE "ok"

\* C7: validate_move checks in a fixed order and the first failure wins:
\* NonNumeric if a token is not numeric, else OutOfRange if a value is outside
\* [1,3], else CellOccupied if the cell is not empty, else success.
C7_CheckOrder ==
    pc = "ret" => outcome = OrderedOutcome(game_state, coords_in[1], coords_in[2])

\* C8: validate_move fails with NonNumeric exactly when a token does not parse
\* as an integer; a token that parses (0, "-1", "+2") goes on to the range check.
C8_NonNumericIffUnparseable ==
    pc = "ret" =>
        (outcome = "NonNumericError"
            <=> (~int_parses(coords_in[1]) \/ ~int_parses(coords_in[2])))

\* C9: on a board with all nine cells filled validate_move never succeeds, and
\* it fails with CellOccupied whenever both tokens are integers in [1,3].
C9_FullBoardOccupied ==
    (pc = "ret" /\ CountOf(game_state, BLANK) = 0) =>
        /\ outcome # "ok"
        /\ (InRange(coords_in[1]) /\ InRange(coords_in[2])) => outcome = "OccupiedCellError"

----------------------------------------------------------------------------
(* Properties of the loop of main, continued (Spec) *)

\* C11: no input line, a line of fewer than two tokens included, ends the
\* process with a failure, and whenever the loop has stopped the status is
\* one other than in-progress.
C11_EndsOnlyResolved ==
    /\ pc # "crashed"
    /\ pc = "done" => game_status # "NOT_FINISHED"

\* C14: the status starts as in-progress and is re-evaluated after every
\* accepted move; once it is X-wins, O-wins, draw or impossible the only step
\* left is the exit from the loop: no move is accepted and the board, the
\* status and the count of accepted moves never change again.
C14_LoopStateMachine ==
    [][ /\ accepted = 0 => game_status = "NOT_FINISHED"
        /\ accepted' # accepted => game_status' = evaluate_game_status(game_state')
        /\ game_status # "NOT_FINISHED" =>
             /\ game_state' = game_state
             /\ game_status' = game_status
             /\ accepted' = accepted
             /\ pc = "loop"
             /\ pc' = "done" ]_vars

\* The loop has been left after a move that won the game for O.
C14_Witness ==
    /\ pc = "done"
    /\ game_status = "O_WIN"
    /\ outcome = "ok"

\* C15: in every state the loop reaches the board has exactly 9 cells, each
\* empty, X or O, and the flat index of the move accepted last lies in [0,8].
C15_NineCells ==
    /\ Len(game_state) = 9
    /\ \A k \in 1..Len(game_state) : game_state[k] \in Cells
    /\ outcome = "ok" =>
         /\ flatten_coordinates(checked_coords) \in 0..8
         /\ flatten_coordinates(checked_coords) =
              (checked_coords[1] - 1) * 3 + (checked_coords[2] - 1)

\* The ninth move has been accepted at (3, 3), flat index 8.
C15_Witness ==
    /\ accepted = 9
    /\ outcome = "ok"
    /\ checked_coords = <<3, 3>>
    /\ flatten_coordinates(checked_coords) = 8

\* C16: the game starts with nine empty cells, every accepted move turns
\* exactly one empty cell into a mark and changes nothing else, no other step
\* changes the board, and a cell holding X or O keeps that mark.
C16_BoardOnlyGrows ==
    [][ /\ accepted = 0 => game_state = EmptyBoard
        /\ \A k \in 1..9 : game_state[k] # BLANK => game_state'[k] = game_state[k]
        /\ accepted' = accepted => game_state' = game_state
        /\ accepted' # accepted =>
             /\ accepted' = accepted + 1
             /\ Cardinality({k \in 1..9 : game_state'[k] # game_state[k]}) = 1
             /\ \A k \in 1..9 : game_state'[k] # game_state[k] =>
                    game_state[k] = BLANK /\ game_state'[k] \in {"X", "O"} ]_vars

\* Five moves have been accepted and four cells are still empty.
C16_Witness ==
    /\ accepted = 5
    /\ outcome = "ok"
    /\ CountOf(game_state, BLANK) = 4

\* Whenever the status is in-progress a further move is eventually accepted:
\* the count of accepted moves, which only grows and by one, changes parity.
ValidMoveKeepsComing ==
    /\ (game_status = "NOT_FINISHED" /\ accepted % 2 = 0) ~> (accepted % 2 = 1)
    /\ (game_status = "NOT_FINISHED" /\ accepted % 2 = 1) ~> (accepted % 2 = 0)

\* C18: the game always ends: at most 9 moves are accepted, the status after
\* the 9th is not in-progress, and if a valid move is eventually entered
\* whenever the status is in-progress, the loop is eventually left with a
\* terminal status.
C18_GameEnds ==
    /\ [](accepted <= 9 /\ (accepted = 9 => game_status # "NOT_FINISHED"))
    /\ ValidMoveKeepsComing => <>(pc = "done" /\ game_status # "NOT_FINISHED")

\* The loop has been left after nine accepted moves with a draw.
C18_Witness ==
    /\ pc = "done"
    /\ accepted = 9
    /\ game_status = "DRAW"

\* C19: the winner is the player who moved last: X-wins only with 5, 7 or 9
\* cells filled, O-wins only with 6 or 8, draw only with all 9, and while the
\* status is in-progress neither player holds a winning triple.
C19_WinnerMovedLast ==
    LET filled == 9 - CountOf(game_state, BLANK)
    IN  /\ game_status = "X_WIN" =>
              filled \in {5, 7, 9} /\ player = "X" /\ HoldsTriple(game_state, "X")
        /\ game_status = "O_WIN" =>
              filled \in {6, 8} /\ player = "O" /\ HoldsTriple(game_state, "O")
        /\ game_status = "DRAW" => filled = 9
        /\ game_status = "NOT_FINISHED" =>
              ~HoldsTriple(game_state, "X") /\ ~HoldsTriple(game_state, "O")

\* O has won with its fourth mark, the eighth move of the game.
C19_Witness ==
    /\ game_status = "O_WIN"
    /\ CountOf(game_state, BLANK) = 1
    /\ accepted = 8
    /\ player = "O"

\* C20: in every state the loop reaches, X has as many marks as O when the
\* number of filled cells is even and one more when it is odd; O never has
\* more marks than X.
C20_CountsBalanced ==
    LET nx == CountOf(game_state, "X")
        no == CountOf(game_state, "O")
    IN  /\ (nx + no) % 2 = 0 => nx - no = 0
        /\ (nx + no) % 2 = 1 => nx - no = 1
        /\ no <= nx

\* Nine moves have been accepted: five X and four O.
C20_Witness ==
    /\ accepted = 9
    /\ CountOf(game_state, "X") = 5
    /\ CountOf(game_state, "O") = 4

----------------------------------------------------------------------------
(* Properties of add_move (SpecAddMove) *)

\* C12: for every board, every (row, col) with both values in [1,3] and every
\* mark, add_move returns a 9-cell board that holds the mark at flat index
\* (row-1)*3+(col-1) and the input board's cells everywhere else, and the
\* input board is as it was.
C12_AddMoveSetsOneCell ==
    [][ (pc = "call" /\ pc' = "ret"
            /\ checked_coords'[1] \in 1..3 /\ checked_coords'[2] \in 1..3) =>
          LET target == (checked_coords'[1] - 1) * 3 + (checked_coords'[2] - 1)
          IN  /\ game_state' = game_state
              /\ Len(updated_state') = 9
              /\ updated_state'[target + 1] = player'
              /\ \A k \in 1..9 : k # target + 1 => updated_state'[k] = game_state[k] ]_vars

\* add_move has put O at (2, 3), flat index 5, on a board that held X there.
C12_Witness ==
    /\ pc = "ret"
    /\ checked_coords = <<2, 3>>
    /\ player = "O"
    /\ game_state[6] = "X"
    /\ updated_state[6] = "O"
    /\ Len(updated_state) = 9

\* C13: called with a coordinate pair in which a value is outside [1,3],
\* add_move raises an error instead of returning a board.
C13_AddMoveRaisesOnInvalid ==
    (pc = "ret" /\ (checked_coords[1] \notin 1..3 \/ checked_coords[2] \notin 1..3))
        => outcome # "ok"

----------------------------------------------------------------------------
(* Properties of validate_move, continued (SpecValidate) *)

\* C17 as stated: on success validate_move returns the pair in zero-based
\* form (row-1, col-1); equivalently, the returned pair (r, c) gives the flat
\* index (row-1)*3+(col-1) as r*3+c.
C17_Original ==
    (pc = "ret" /\ outcome = "ok") =>
        \/ checked_coords = <<int(coords_in[1]) - 1, int(coords_in[2]) - 1>>
        \/ checked_coords[1] * 3 + checked_coords[2]
              = (int(coords_in[1]) - 1) * 3 + (int(coords_in[2]) - 1)

\* C17 as amended: on success validate_move returns the pair in one-based
\* form, (int(row), int(col)), both values in [1,3].
C17_ReturnsOneBasedPair ==
    (pc = "ret" /\ outcome = "ok") =>
        /\ checked_coords = <<int(coords_in[1]), int(coords_in[2])>>
        /\ checked_coords[1] \in 1..3
        /\ checked_coords[2] \in 1..3

\* validate_move has succeeded on the tokens "3" and "1".
C17_Witness ==
    /\ pc = "ret"
    /\ outcome = "ok"
    /\ coords_in = << <<"3">>, <<"1">> >>
    /\ checked_coords = <<3, 1>>

====
